---- MODULE Spec2Model ----
(***************************************************************************)
(* Emerald Hill (EH) compression engine driver, drivers/soc/google/eh/     *)
(* eh_main.c: the compression descriptor FIFO (eh_compress_page), the      *)
(* completion thread (eh_comp_thread), the halt recovery                   *)
(* (eh_abort_incomplete_descriptors), the synchronous decompression        *)
(* (eh_decompress_page), the FIFO size test of eh_init and the             *)
(* power-management callbacks (eh_suspend, eh_resume), together with the   *)
(* hardware block that consumes the FIFO and the command sets.             *)
(***************************************************************************)
EXTENDS Integers, Sequences, FiniteSets, TLC

(* ------------------------------ bounds --------------------------------- *)

\* log2 of the FIFO size used for checking (eh_init accepts powers of two)
FifoOrder == 1
\* number of threads calling eh_compress_page concurrently
NumProducers == 2
\* number of eh_compress_page calls explored by Spec
MaxSubmit == 3
\* number of eh_compress_page calls explored by SpecRing and SpecLong
MaxSubmitLong == 4
\* number of comp_callback invocations explored
MaxCallbacks == 5
\* number of eh_suspend calls explored
MaxSuspends == 1
\* number of CPUs calling eh_decompress_page
NumCpus == 3
\* number of decompression command sets the block reports
NumDcmd == 2
\* number of eh_decompress_page calls explored
MaxDecompress == 3
\* submissions and decompressions where every lock taker runs
LockSubmits == 1
LockDecompresses == 2
\* devices probed, clients calling eh_create, and eh_create calls
NumDevices == 2
NumClients == 3
MaxCreates == 5

(* --------------------------- configuration ----------------------------- *)

fifo_size == 2 ^ FifoOrder
fifo_index_mask == fifo_size - 1
fifo_color_mask == (fifo_size * 2) - 1

\* x & mask for a mask of the form 2^k - 1 and x taken as an unsigned int
BitAnd(x, mask) == x % (mask + 1)

Slots == 0 .. (fifo_size - 1)
Producers == 1 .. NumProducers

\* cmpl->priv of a slot that holds no request
NULL == 0

\* descriptor status values
EH_CDESC_IDLE == "IDLE"
EH_CDESC_PENDING == "PENDING"
EH_CDESC_COPIED == "COPIED"
EH_CDESC_COMPRESSED == "COMPRESSED"
EH_CDESC_ZERO == "ZERO"
EH_CDESC_ABORT == "ABORT"
EH_CDESC_ERROR_CONTINUE == "ERROR_CONTINUE"
EH_CDESC_ERROR_HALTED == "ERROR_HALTED"

\* the statuses the hardware leaves in a descriptor it has completed
DeviceStatuses ==
    {EH_CDESC_COPIED, EH_CDESC_COMPRESSED, EH_CDESC_ZERO, EH_CDESC_ABORT,
     EH_CDESC_ERROR_CONTINUE, EH_CDESC_ERROR_HALTED}

\* holder of fifo_prod_lock
NoOwner == 0
PmOwner == NumProducers + 1

\* smp_processor_id() of the callers of eh_decompress_page
Cpus == 0 .. (NumCpus - 1)
\* eh_dev->decompr_cmd_count and the command sets it counts
decompr_cmd_count == NumDcmd
DcmdSlots == 0 .. (decompr_cmd_count - 1)
\* the static mapping of cpu to decompression command set
DcmdIndex(c) == c % decompr_cmd_count

\* holder of decompr_lock[i]: NoOwner, a cpu, or the power-management thread
CpuOwner(c) == c + 1
DcmdPmOwner == NumCpus + 1

\* status field of EH_REG_DCMD_DEST
EH_DCMD_PENDING == "DCMD_PENDING"
EH_DCMD_DECOMPRESSED == "DCMD_DECOMPRESSED"
\* the status of a command set that was never programmed
DcmdResetStatus == "DCMD_RESET"
\* a status that is neither EH_DCMD_PENDING nor EH_DCMD_DECOMPRESSED
DcmdFailedStatus == "DCMD_FAILED"
\* the statuses the block leaves in a command set it has finished
DcmdFinalStatuses == {EH_DCMD_DECOMPRESSED, DcmdFailedStatus}

(* ------------------------------- state --------------------------------- *)

VARIABLES
    write_index,      \* eh_dev->write_index
    complete_index,   \* eh_dev->complete_index
    fifo,             \* eh_dev->fifo: the descriptors, by masked index
    completions,      \* eh_dev->completions[i].priv, by masked index
    nr_request,       \* eh_dev->nr_request
    suspended,        \* eh_dev->suspended
    fifo_prod_lock,   \* eh_dev->fifo_prod_lock: its holder, or NoOwner
    regs,             \* the registers of the block the driver reads and writes
    hw_halted,        \* the block stopped on a descriptor it marked ERROR_HALTED
    ppc,              \* where each producer stands in eh_compress_page
    ptok,             \* the priv argument of each producer's current call
    rpc,              \* where eh_comp_thread stands
    rloc,             \* the locals of eh_comp_thread and the functions it calls
    pmpc,             \* where the power-management thread stands
    calls,            \* number of eh_compress_page calls made so far
    suspends,         \* number of eh_suspend calls made so far
    budget,           \* number of eh_compress_page calls to explore
    admitted,         \* priv of every submission, in the order slots were assigned
    delivered,        \* every invocation of comp_callback, in order
    haltPending,      \* submissions outstanding when halt recovery read write_index
    decompr_lock,     \* eh_dev->decompr_lock[i]: its holder, or NoOwner
    decompr_busy,     \* eh_dev->decompr_busy[i]
    dcmd,             \* the registers of each decompression command set
    dpc,              \* where each cpu stands in eh_decompress_page
    dsize,            \* the compr_size argument of each cpu's current call
    dret,             \* what each cpu's last eh_decompress_page call returned
    dtimer,           \* time_after(jiffies, timeout) of each cpu's poll loop
    dcalls,           \* number of eh_decompress_page calls made so far
    dbudget,          \* number of eh_decompress_page calls to explore
    pmi,              \* the local i of eh_suspend while it takes decompr_lock[i]
    pmret,            \* what the last eh_suspend or eh_resume call returned
    pm_overlap,       \* a decompression was in flight when eh_suspend was called
    stop_requested,   \* kthread_should_stop() of eh_comp_thread
    probe,            \* the eh_init call: its argument and what it left
    dsetup,           \* an eh_setup_dcmd call: its arguments and what it programmed
    eh_dev_list,      \* the list of unclaimed devices, head first
    callbacks,        \* comp_callback and decomp_callback of each device
    cpc,              \* where each client stands in eh_create or eh_destroy
    cloc,             \* each client's device pointer and last error
    ccalls,           \* number of eh_create calls made so far
    reset             \* an eh_reset call: its locals, EH_REG_GCTRL and what it did

vars ==
    <<write_index, complete_index, fifo, completions, nr_request, suspended,
      fifo_prod_lock, regs, hw_halted, ppc, ptok, rpc, rloc, pmpc, calls,
      suspends, budget, admitted, delivered, haltPending, decompr_lock,
      decompr_busy, dcmd, dpc, dsize, dret, dtimer, dcalls, dbudget, pmi,
      pmret, pm_overlap, stop_requested, probe, dsetup, eh_dev_list,
      callbacks, cpc, cloc, ccalls, reset>>

\* the state of the calls explored one function at a time
registryVars == <<eh_dev_list, callbacks, cpc, cloc, ccalls>>
libVars == <<dsetup, registryVars, reset>>
ringVars == <<write_index, complete_index, fifo, completions, nr_request>>
prodVars == <<ppc, ptok, calls, admitted>>
reapVars == <<rpc, rloc, delivered, haltPending, stop_requested>>
slotVars == <<decompr_lock, decompr_busy, dcmd>>
decVars == <<dpc, dsize, dret, dtimer, dcalls, dbudget>>
pmVars == <<pmi, pmret, pm_overlap>>
\* what eh_compress_page, eh_comp_thread and the compression side of the block
\* leave alone
otherVars == <<slotVars, decVars, pmVars, probe, libVars>>

\* a descriptor as init_compression_descriptor and kzalloc leave it
IdleDesc == [status |-> EH_CDESC_IDLE, src_addr |-> NULL, compr_len |-> 0]

RegsAfterInit ==
    [CDESC_WRIDX |-> 0, COMPLETE_IDX |-> 0, COMPRESS_ENABLE |-> TRUE,
     INTRP_MASK_ERROR |-> 0, INTRP_MASK_CMP |-> 0, INTRP_MASK_DCMP |-> 0,
     ERR_COND |-> 0]

ReaperLocals == [i |-> 0, end |-> 0, ret |-> 0, masked_write_index |-> 0]

(* ------------------------------ eh_reset ------------------------------- *)

EH_MAX_RESET_WAIT == 100

NoReset == [pc |-> "none"]

\* eh_reset before its first statement, with or without
\* EH_QUIRK_IGNORE_GCTRL_RESET; EH_REG_GCTRL reads 0
ResetEntry(quirk) ==
    [pc |-> "entry", quirk |-> quirk, gctrl |-> 0, count |-> 0, reads |-> 0,
     zero_read |-> FALSE, writes |-> 0, ret |-> "NONE"]

(* ----------------------- the list of devices --------------------------- *)

Devices == 1 .. NumDevices
Clients == 1 .. NumClients

\* the comp and decomp arguments client k passes to eh_create
CompFn(k) == k
DecompFn(k) == NumClients + k

NoCallbacks == [comp |-> NULL, decomp |-> NULL]

\* the devices eh_sw_init has put on eh_dev_list, none claimed
RegistryInit(list) ==
    /\ eh_dev_list = list
    /\ callbacks = [d \in Devices |-> NoCallbacks]
    /\ cpc = [k \in Clients |-> "idle"]
    /\ cloc = [k \in Clients |-> [ret |-> NULL, err |-> "NONE"]]
    /\ ccalls = 0

(* ----------------------------- eh_setup_dcmd --------------------------- *)

PAGE_SIZE == 4096

RECURSIVE Shl1(_)
\* 1UL << k
Shl1(k) == IF k = 0 THEN 1 ELSE 2 * Shl1(k - 1)

\* eh_dev->decompr_buffers[index]: one page from __get_free_pages
DecomprBuffer(index) == (index + 1) * PAGE_SIZE

NoSetup == [pc |-> "none"]

\* eh_setup_dcmd before its first statement
SetupEntry(index, compr_data, compr_size) ==
    [pc |-> "entry", index |-> index, compr_data |-> compr_data,
     compr_size |-> compr_size]

(* ------------------------------- eh_init ------------------------------- *)

\* largest value of the unsigned short fifo_size argument of eh_init
UShortMax == 65535
\* the largest FIFO size eh_init accepts
EH_MAX_FIFO_SIZE == 32768

RECURSIVE Ffs(_)
\* __ffs: index of the least significant set bit of a nonzero word
Ffs(n) == IF n % 2 = 1 THEN 0 ELSE 1 + Ffs(n \div 2)

RECURSIVE Fls(_)
\* __fls: index of the most significant set bit of a nonzero word
Fls(n) == IF n \div 2 = 0 THEN 0 ELSE 1 + Fls(n \div 2)

\* FifoSizeValid without the power-of-two test
FifoSizeInRange(n) == n # 0 /\ ~(n > EH_MAX_FIFO_SIZE)

\* the fifo_size test of eh_init
FifoSizeValid(n) == n # 0 /\ Ffs(n) = Fls(n) /\ ~(n > EH_MAX_FIFO_SIZE)

\* where eh_hw_init or eh_sw_init can fail for want of a resource
InitFailures == {"none", "ioremap", "features", "alloc", "reset", "thread"}

\* eh_dev before eh_init(fifo_size) has run
Unprobed(n) ==
    [fifo_size |-> n, pc |-> "entry", ret |-> "NONE", failed |-> "none",
     fifo_index_mask |-> 0, fifo_color_mask |-> 0,
     regs_accessed |-> FALSE, allocated |-> FALSE, comp_thread |-> FALSE]

\* eh_init(fifo_size = n) when the step named by fail fails
EhInitResult(n, fail) ==
    LET u == [Unprobed(n) EXCEPT !.pc = "returned"]
        masked == [u EXCEPT !.fifo_index_mask = n - 1,
                            !.fifo_color_mask = (n * 2) - 1,
                            !.regs_accessed = TRUE]
    IN  IF ~FifoSizeValid(n) THEN [u EXCEPT !.ret = "EINVAL"]
        ELSE CASE fail = "ioremap" ->
                      [u EXCEPT !.ret = "ENOMEM", !.failed = fail]
               [] fail = "features" ->
                      [u EXCEPT !.ret = "EINVAL", !.failed = fail,
                                !.regs_accessed = TRUE]
               [] fail = "alloc" ->
                      [masked EXCEPT !.ret = "EINVAL", !.failed = fail]
               [] fail = "reset" ->
                      [masked EXCEPT !.ret = "ETIMEDOUT", !.failed = fail]
               [] fail = "thread" ->
                      [masked EXCEPT !.ret = "ENOMEM", !.failed = fail]
               [] OTHER -> [masked EXCEPT !.ret = "OK", !.allocated = TRUE,
                                         !.comp_thread = TRUE]

\* the decompression command sets as eh_init_decompression leaves them, with
\* d calls of eh_decompress_page to explore
DecompInit(d) ==
    /\ decompr_lock = [i \in DcmdSlots |-> NoOwner]
    /\ decompr_busy = [i \in DcmdSlots |-> FALSE]
    /\ dcmd = [i \in DcmdSlots |-> [status |-> DcmdResetStatus, csize |-> 0]]
    /\ dpc = [c \in Cpus |-> "idle"]
    /\ dsize = [c \in Cpus |-> 0]
    /\ dret = [c \in Cpus |-> "NONE"]
    /\ dtimer = [c \in Cpus |-> FALSE]
    /\ dcalls = 0
    /\ dbudget = d
    /\ pmi = 0
    /\ pmret = "NONE"
    /\ pm_overlap = FALSE

\* the compression side as eh_init leaves it, with n calls of
\* eh_compress_page to explore
RingInit(n) ==
    /\ write_index = 0
    /\ complete_index = 0
    /\ fifo = [s \in Slots |-> IdleDesc]
    /\ completions = [s \in Slots |-> NULL]
    /\ nr_request = 0
    /\ suspended = FALSE
    /\ fifo_prod_lock = NoOwner
    /\ regs = RegsAfterInit
    /\ hw_halted = FALSE
    /\ ppc = [p \in Producers |-> "idle"]
    /\ ptok = [p \in Producers |-> NULL]
    /\ rpc = "wait"
    /\ rloc = ReaperLocals
    /\ pmpc = "running"
    /\ calls = 0
    /\ suspends = 0
    /\ budget = n
    /\ admitted = <<>>
    /\ delivered = <<>>
    /\ haltPending = {}
    /\ stop_requested = FALSE

\* no call of the functions explored one at a time is under way
LibInit == dsetup = NoSetup /\ RegistryInit(<<>>) /\ reset = NoReset

InitWith(n) ==
    /\ RingInit(n)
    /\ DecompInit(0)
    /\ probe = EhInitResult(fifo_size, "none")
    /\ LibInit

Init == InitWith(MaxSubmit)

(* -------------------------- eh_compress_page --------------------------- *)

\* the next index with the colour mask left out
NextIndexUnmasked(i) == i + 1

\* (i + 1) & eh_dev->fifo_color_mask
NextIndex(i) == BitAnd(i + 1, fifo_color_mask)

\* new_pending_count of eh_compress_page
NewPendingCount(w, c) == BitAnd(NextIndex(w) - c, fifo_color_mask)

\* FifoFull with the limit one too high
FifoFullOffByOne(w, c) == NewPendingCount(w, c) > fifo_size + 1

\* the test that sends a producer to eh_congestion_wait
FifoFull(w, c) == NewPendingCount(w, c) > fifo_size

\* masked_w_index taken from new_write_index
MaskedNewWriteIndex == BitAnd(write_index + 1, fifo_index_mask)

\* masked_w_index of eh_compress_page
masked_w_index == BitAnd(write_index, fifo_index_mask)

\* DeviceSuspended with the test left out
SuspendedIgnored == FALSE

\* the test that makes eh_compress_page return -EBUSY
DeviceSuspended == suspended

\* ProdLockFree with the lock left out
LockAlwaysFree == TRUE

\* spin_lock(&eh_dev->fifo_prod_lock) can return
ProdLockFree == fifo_prod_lock = NoOwner

\* spin_lock(&eh_dev->fifo_prod_lock), on entry and after eh_congestion_wait
CompressLock(p) ==
    /\ ppc[p] \in {"idle", "failed", "wait"}
    /\ ProdLockFree
    /\ IF ppc[p] # "wait"
       THEN /\ calls < budget
            /\ calls' = calls + 1
            /\ ptok' = [ptok EXCEPT ![p] = calls + 1]
       ELSE UNCHANGED <<calls, ptok>>
    /\ fifo_prod_lock' = p
    /\ ppc' = [ppc EXCEPT ![p] = "locked"]
    /\ UNCHANGED <<ringVars, suspended, regs, hw_halted, reapVars, pmpc, budget, suspends,
                   admitted>>
    /\ UNCHANGED otherVars

\* the suspended check (return -EBUSY: "failed"), the full check and
\* eh_setup_descriptor
CompressCheck(p) ==
    /\ ppc[p] = "locked"
    /\ IF DeviceSuspended
       THEN /\ fifo_prod_lock' = NoOwner
            /\ ppc' = [ppc EXCEPT ![p] = "failed"]
            /\ UNCHANGED <<fifo, admitted>>
       ELSE IF FifoFull(write_index, complete_index)
       THEN /\ fifo_prod_lock' = NoOwner
            /\ ppc' = [ppc EXCEPT ![p] = "wait"]
            /\ UNCHANGED <<fifo, admitted>>
       ELSE /\ fifo' = [fifo EXCEPT ![masked_w_index] =
                           [@ EXCEPT !.src_addr = ptok[p],
                                     !.status = EH_CDESC_PENDING]]
            /\ admitted' = Append(admitted, ptok[p])
            /\ ppc' = [ppc EXCEPT ![p] = "record"]
            /\ UNCHANGED fifo_prod_lock
    /\ UNCHANGED <<write_index, complete_index, completions, nr_request,
                   suspended, regs, hw_halted, ptok, reapVars, pmpc, calls,
                   budget, suspends>>
    /\ UNCHANGED otherVars

\* cmpl->priv = priv
CompressRecord(p) ==
    /\ ppc[p] = "record"
    /\ completions' = [completions EXCEPT ![masked_w_index] = ptok[p]]
    /\ ppc' = [ppc EXCEPT ![p] = "count"]
    /\ UNCHANGED <<write_index, complete_index, fifo, nr_request, suspended,
                   fifo_prod_lock, regs, hw_halted, ptok, reapVars, pmpc,
                   calls, budget, suspends, admitted>>
    /\ UNCHANGED otherVars

\* atomic_inc(&eh_dev->nr_request); wake_up(&eh_dev->comp_wq)
CompressCount(p) ==
    /\ ppc[p] = "count"
    /\ nr_request' = nr_request + 1
    /\ ppc' = [ppc EXCEPT ![p] = "publish"]
    /\ UNCHANGED <<write_index, complete_index, fifo, completions, suspended,
                   fifo_prod_lock, regs, hw_halted, ptok, reapVars, pmpc,
                   calls, budget, suspends, admitted>>
    /\ UNCHANGED otherVars

\* write_index = new_write_index, the write of EH_REG_CDESC_WRIDX, unlock,
\* return 0 ("idle")
CompressPublish(p) ==
    /\ ppc[p] = "publish"
    /\ write_index' = NextIndex(write_index)
    /\ regs' = [regs EXCEPT !.CDESC_WRIDX = NextIndex(write_index)]
    /\ fifo_prod_lock' = NoOwner
    /\ ppc' = [ppc EXCEPT ![p] = "idle"]
    /\ UNCHANGED <<complete_index, fifo, completions, nr_request, suspended,
                   hw_halted, ptok, reapVars, pmpc, calls, budget, suspends, admitted>>
    /\ UNCHANGED otherVars

(* ------------------------- the hardware block -------------------------- *)

\* ERR_COND as the block can leave it after halting the FIFO
ErrCondValues == {0, 1}

\* compr_len the block writes for the page of one submission
CompressedLen(src) == src

\* The block completes the descriptor at its completion index and advances the
\* index; a descriptor marked ERROR_HALTED stops it.
DeviceComplete(s, e) ==
    /\ regs.COMPRESS_ENABLE
    /\ ~hw_halted
    /\ regs.COMPLETE_IDX # regs.CDESC_WRIDX
    /\ LET slot == BitAnd(regs.COMPLETE_IDX, fifo_index_mask)
           len == IF s \in {EH_CDESC_COPIED, EH_CDESC_COMPRESSED}
                  THEN CompressedLen(fifo[slot].src_addr)
                  ELSE fifo[slot].compr_len
       IN  fifo' = [fifo EXCEPT ![slot] =
                       [@ EXCEPT !.status = s, !.compr_len = len]]
    /\ IF s = EH_CDESC_ERROR_HALTED
       THEN /\ hw_halted' = TRUE
            /\ regs' = [regs EXCEPT !.COMPLETE_IDX = NextIndex(@),
                                    !.ERR_COND = e]
       ELSE /\ e = 0
            /\ hw_halted' = hw_halted
            /\ regs' = [regs EXCEPT !.COMPLETE_IDX = NextIndex(@)]
    /\ UNCHANGED <<write_index, complete_index, completions, nr_request,
                   suspended, fifo_prod_lock, prodVars, reapVars, pmpc, budget, suspends>>
    /\ UNCHANGED otherVars

\* The block advances its completion index over a descriptor it leaves
\* PENDING: the case eh_process_completed_descriptor reports as "descriptor
\* pend or idle".
DeviceMisreport ==
    /\ regs.COMPRESS_ENABLE
    /\ ~hw_halted
    /\ regs.COMPLETE_IDX # regs.CDESC_WRIDX
    /\ regs' = [regs EXCEPT !.COMPLETE_IDX = NextIndex(@)]
    /\ UNCHANGED <<ringVars, suspended, fifo_prod_lock, hw_halted, prodVars,
                   reapVars, pmpc, budget, suspends, otherVars>>

(* --------------------------- eh_comp_thread ---------------------------- *)

\* kthread_stop(eh_dev->comp_thread) of eh_deinit: the stop flag is set and
\* the thread is woken
KthreadStop ==
    /\ ~stop_requested
    /\ stop_requested' = TRUE
    /\ UNCHANGED <<ringVars, suspended, fifo_prod_lock, regs, hw_halted,
                   prodVars, rpc, rloc, delivered, haltPending, pmpc, budget,
                   suspends, otherVars>>

\* compr_buffers[fifo_index], never NULL
CompBuffer(index) == index + 1

\* the arguments eh_process_completed_descriptor passes to comp_callback
CompletionArgs(index) ==
    [status |-> fifo[index].status,
     data   |-> IF fifo[index].status \in {EH_CDESC_COPIED, EH_CDESC_COMPRESSED}
                THEN CompBuffer(index) ELSE NULL,
     size   |-> fifo[index].compr_len,
     priv   |-> completions[index]]

\* the arguments eh_abort_incomplete_descriptors passes to comp_callback
AbortArgs(index) ==
    [status |-> EH_CDESC_ERROR_HALTED, data |-> NULL, size |-> 0,
     priv |-> completions[index]]

\* where eh_comp_thread stands after the test of its while loop: it leaves the
\* loop when kthread_should_stop(), else it enters wait_event_freezable
LoopTop == IF stop_requested THEN "stopped" ELSE "wait"

\* ret with a descriptor marked ERROR_CONTINUE taken for fatal as well
CompletionRetAnyError(status) ==
    IF status \in {EH_CDESC_ERROR_CONTINUE, EH_CDESC_ERROR_HALTED} THEN 1 ELSE 0

\* ret of eh_process_completed_descriptor
CompletionRet(status) == IF status = EH_CDESC_ERROR_HALTED THEN 1 ELSE 0

\* wait_event_freezable(nr_request > 0), then eh_update_complete_index
ReaperPoll ==
    /\ rpc = "wait"
    /\ nr_request > 0
    /\ IF regs.COMPLETE_IDX # complete_index
       THEN /\ rloc' = [rloc EXCEPT !.i = complete_index,
                                    !.end = regs.COMPLETE_IDX, !.ret = 0]
            /\ rpc' = "callback"
       ELSE /\ rpc' = LoopTop
            /\ rloc' = rloc
    /\ UNCHANGED <<ringVars, suspended, fifo_prod_lock, regs, hw_halted,
                   prodVars, pmpc, budget, suspends, delivered, haltPending>>
    /\ UNCHANGED <<otherVars, stop_requested>>

\* eh_process_completed_descriptor up to the callback
ReaperCallback ==
    /\ rpc = "callback"
    /\ Len(delivered) < MaxCallbacks
    /\ LET index == BitAnd(rloc.i, fifo_index_mask)
       IN  /\ delivered' = Append(delivered, CompletionArgs(index))
           /\ rloc' = [rloc EXCEPT !.ret = CompletionRet(fifo[index].status)]
    /\ rpc' = "idle"
    /\ UNCHANGED <<ringVars, suspended, fifo_prod_lock, regs, hw_halted,
                   prodVars, pmpc, budget, suspends, haltPending>>
    /\ UNCHANGED <<otherVars, stop_requested>>

\* desc->u1.s1.status = EH_CDESC_IDLE
ReaperIdle ==
    /\ rpc = "idle"
    /\ fifo' = [fifo EXCEPT ![BitAnd(rloc.i, fifo_index_mask)].status =
                   EH_CDESC_IDLE]
    /\ rpc' = "dec"
    /\ UNCHANGED <<write_index, complete_index, completions, nr_request,
                   suspended, fifo_prod_lock, regs, hw_halted, prodVars, rloc,
                   delivered, haltPending, pmpc, budget, suspends>>
    /\ UNCHANGED <<otherVars, stop_requested>>

\* atomic_dec(&eh_dev->nr_request); clear_eh_congested()
ReaperDec ==
    /\ rpc = "dec"
    /\ nr_request' = nr_request - 1
    /\ rpc' = "store"
    /\ UNCHANGED <<write_index, complete_index, fifo, completions, suspended,
                   fifo_prod_lock, regs, hw_halted, prodVars, rloc, delivered,
                   haltPending, pmpc, budget, suspends>>
    /\ UNCHANGED <<otherVars, stop_requested>>

\* cmpl->priv = NULL; smp_store_release(&complete_index, ...), then the loop of
\* eh_process_completions
ReaperStore ==
    /\ rpc = "store"
    /\ completions' = [completions EXCEPT
                          ![BitAnd(rloc.i, fifo_index_mask)] = NULL]
    /\ complete_index' = BitAnd(complete_index + 1, fifo_color_mask)
    /\ IF rloc.ret # 0
       THEN /\ rpc' = "error"
            /\ rloc' = rloc
       ELSE IF NextIndex(rloc.i) # rloc.end
       THEN /\ rpc' = "callback"
            /\ rloc' = [rloc EXCEPT !.i = NextIndex(rloc.i)]
       ELSE /\ rpc' = LoopTop
            /\ rloc' = rloc
    /\ UNCHANGED <<write_index, fifo, nr_request, suspended, fifo_prod_lock,
                   regs, hw_halted, prodVars, delivered, haltPending, pmpc,
                   budget, suspends>>
    /\ UNCHANGED <<otherVars, stop_requested>>

\* the read of EH_REG_ERR_COND after a descriptor marked ERROR_HALTED
ReaperError ==
    /\ rpc = "error"
    /\ rpc' = IF regs.ERR_COND # 0 THEN "abort" ELSE LoopTop
    /\ UNCHANGED <<ringVars, suspended, fifo_prod_lock, regs, hw_halted,
                   prodVars, rloc, delivered, haltPending, pmpc, budget, suspends>>
    /\ UNCHANGED <<otherVars, stop_requested>>

\* priv of the submissions whose write index is published
Published ==
    {admitted[k] : k \in 1 .. Len(admitted)} \
        {ptok[p] : p \in {q \in Producers : ppc[q] \in {"record", "count", "publish"}}}

DeliveredTokens == {delivered[k].priv : k \in 1 .. Len(delivered)}

\* eh_abort_incomplete_descriptors: the two index reads
ReaperAbortBegin ==
    /\ rpc = "abort"
    /\ rloc' = [rloc EXCEPT
                   !.masked_write_index = BitAnd(write_index, fifo_index_mask),
                   !.i = BitAnd(regs.COMPLETE_IDX, fifo_index_mask)]
    /\ haltPending' = Published \ DeliveredTokens
    /\ rpc' = "abortloop"
    /\ UNCHANGED <<ringVars, suspended, fifo_prod_lock, regs, hw_halted,
                   prodVars, delivered, pmpc, budget, suspends>>
    /\ UNCHANGED <<otherVars, stop_requested>>

\* eh_abort_incomplete_descriptors: one turn of the loop, or its end and the
\* break out of the thread's loop
ReaperAbortStep ==
    /\ rpc = "abortloop"
    /\ IF rloc.i # rloc.masked_write_index
       THEN /\ Len(delivered) < MaxCallbacks
            /\ delivered' = Append(delivered, AbortArgs(rloc.i))
            /\ completions' = [completions EXCEPT ![rloc.i] = NULL]
            /\ rloc' = [rloc EXCEPT !.i = BitAnd(rloc.i + 1, fifo_index_mask)]
            /\ rpc' = rpc
       ELSE /\ rpc' = "exited"
            /\ UNCHANGED <<delivered, completions, rloc>>
    /\ UNCHANGED <<write_index, complete_index, fifo, nr_request, suspended,
                   fifo_prod_lock, regs, hw_halted, prodVars, haltPending, pmpc,
                   budget, suspends>>
    /\ UNCHANGED <<otherVars, stop_requested>>

(* ------------------------- eh_decompress_page -------------------------- *)

\* the whole of the compression side and of the eh_init record
ringSide ==
    <<ringVars, fifo_prod_lock, hw_halted, prodVars, reapVars, budget, probe, libVars>>

\* decompr_lock with decompr_lock[i] left held
DcmdUnlockSkipped(i) == decompr_lock

\* spin_unlock_irqrestore(&eh_dev->decompr_lock[index], flags) at out:
DcmdUnlock(i) == [decompr_lock EXCEPT ![i] = NoOwner]

\* decompr_busy with decompr_busy[i] set when the command set is programmed
BusyMarkedAtSetup(i) == [decompr_busy EXCEPT ![i] = TRUE]

\* decompr_busy after eh_setup_dcmd: eh_decompress_page does not write it
BusyAfterSetup(i) == decompr_busy

\* the poll loop without its time limit
PollNeverTimesOut(c) == FALSE

\* time_after(jiffies, timeout) in the poll loop
PollTimedOut(c) == dtimer[c]

\* the return value with every status that left PENDING taken for success
DecompressAlwaysOk(status) == "OK"

\* the return value eh_decompress_page derives from the status it polled
DecompressResult(status) ==
    IF status # EH_DCMD_DECOMPRESSED THEN "EIO" ELSE "OK"

\* the slot lock taken without waiting for its holder
SlotLockNotAwaited(i) == TRUE

\* spin_lock_irqsave(&eh_dev->decompr_lock[index], flags) can return
SlotLockFree(i) == decompr_lock[i] = NoOwner

\* index = smp_processor_id() % decompr_cmd_count and spin_lock_irqsave
DecompressLock(c) ==
    /\ dpc[c] = "idle"
    /\ dcalls < dbudget
    /\ SlotLockFree(DcmdIndex(c))
    /\ decompr_lock' = [decompr_lock EXCEPT ![DcmdIndex(c)] = CpuOwner(c)]
    /\ dcalls' = dcalls + 1
    /\ dsize' = [dsize EXCEPT ![c] = dcalls + 1]
    /\ dret' = [dret EXCEPT ![c] = "NONE"]
    /\ dpc' = [dpc EXCEPT ![c] = "locked"]
    /\ UNCHANGED <<ringSide, suspended, regs, pmpc, suspends, decompr_busy,
                   dcmd, dtimer, dbudget, pmVars>>

\* DecompressRefused with the suspended test left out
DecompressRefusedBusyOnly(index) == decompr_busy[index]

\* the two tests that make eh_decompress_page return -EBUSY
DecompressRefused(index) == suspended \/ decompr_busy[index]

\* the suspended check, the busy check, eh_setup_dcmd and the start of the
\* poll window
DecompressCheck(c) ==
    LET index == DcmdIndex(c) IN
    /\ dpc[c] = "locked"
    /\ IF DecompressRefused(index)
       THEN /\ dret' = [dret EXCEPT ![c] = "EBUSY"]
            /\ decompr_lock' = DcmdUnlock(index)
            /\ dpc' = [dpc EXCEPT ![c] = "idle"]
            /\ UNCHANGED <<dcmd, decompr_busy, dtimer>>
       ELSE /\ dcmd' = [dcmd EXCEPT ![index] =
                           [status |-> EH_DCMD_PENDING, csize |-> dsize[c]]]
            /\ decompr_busy' = BusyAfterSetup(index)
            /\ dtimer' = [dtimer EXCEPT ![c] = FALSE]
            /\ dpc' = [dpc EXCEPT ![c] = "poll"]
            /\ UNCHANGED <<dret, decompr_lock>>
    /\ UNCHANGED <<ringSide, suspended, regs, pmpc, suspends, dsize, dcalls,
                   dbudget, pmVars>>

\* one turn of the poll loop that leaves it: the time limit has passed, or
\* the status read is no longer EH_DCMD_PENDING
DecompressPoll(c) ==
    LET index == DcmdIndex(c) IN
    /\ dpc[c] = "poll"
    /\ IF PollTimedOut(c)
       THEN dret' = [dret EXCEPT ![c] = "ETIME"]
       ELSE /\ dcmd[index].status # EH_DCMD_PENDING
            /\ dret' = [dret EXCEPT ![c] = DecompressResult(dcmd[index].status)]
    /\ decompr_lock' = DcmdUnlock(index)
    /\ dpc' = [dpc EXCEPT ![c] = "idle"]
    /\ UNCHANGED <<ringSide, suspended, regs, pmpc, suspends, decompr_busy,
                   dcmd, dsize, dtimer, dcalls, dbudget, pmVars>>

\* jiffies passes the timeout of the poll loop of cpu c
Tick(c) ==
    /\ dpc[c] = "poll"
    /\ ~dtimer[c]
    /\ dtimer' = [dtimer EXCEPT ![c] = TRUE]
    /\ UNCHANGED <<ringSide, suspended, regs, pmpc, suspends, slotVars, dpc,
                   dsize, dret, dcalls, dbudget, pmVars>>

\* the block finishes the command in command set i with status s
DcmdComplete(i, s) ==
    /\ dcmd[i].status = EH_DCMD_PENDING
    /\ ~suspended
    /\ dcmd' = [dcmd EXCEPT ![i].status = s]
    /\ UNCHANGED <<ringSide, suspended, regs, pmpc, suspends, decompr_lock,
                   decompr_busy, decVars, pmVars>>

(* ----------------------- eh_suspend and eh_resume ---------------------- *)

\* the test of eh_suspend for pending compressions, left out
NoRequestPending == FALSE

\* atomic_read(&eh_dev->nr_request) > 0
RequestPending == nr_request > 0

\* a decompression is between eh_setup_dcmd and the end of its poll loop
DecompressInFlight == \E c \in Cpus : dpc[c] = "poll"

\* eh_suspend is called: spin_lock(&eh_dev->fifo_prod_lock)
SuspendLock ==
    /\ pmpc = "running"
    /\ suspends < MaxSuspends
    /\ ProdLockFree
    /\ fifo_prod_lock' = PmOwner
    /\ pmpc' = "locking"
    /\ pmi' = 0
    /\ pmret' = "NONE"
    /\ pm_overlap' = DecompressInFlight
    /\ suspends' = suspends + 1
    /\ UNCHANGED <<ringVars, suspended, regs, hw_halted, prodVars, reapVars,
                   budget, slotVars, decVars, probe, libVars>>

\* one turn of the loop taking decompr_lock[i]
SuspendLockSlot ==
    /\ pmpc = "locking"
    /\ decompr_lock[pmi] = NoOwner
    /\ decompr_lock' = [decompr_lock EXCEPT ![pmi] = DcmdPmOwner]
    /\ pmi' = pmi + 1
    /\ pmpc' = IF pmi + 1 = decompr_cmd_count THEN "suspending" ELSE "locking"
    /\ UNCHANGED <<ringVars, suspended, fifo_prod_lock, regs, hw_halted,
                   prodVars, reapVars, budget, suspends, decompr_busy, dcmd,
                   decVars, pmret, pm_overlap, probe, libVars>>

\* decompr_lock with the slot locks left held at out:
SuspendUnlockSkipped == decompr_lock

\* the loop of spin_unlock(&eh_dev->decompr_lock[i]) at out: of eh_suspend
SuspendUnlock == [i \in DcmdSlots |-> NoOwner]

\* eh_suspend with the locks held
SuspendBody ==
    /\ pmpc = "suspending"
    /\ IF RequestPending \/ \E i \in DcmdSlots : decompr_busy[i]
       THEN /\ pmpc' = "running"
            /\ pmret' = "EBUSY"
            /\ UNCHANGED <<regs, suspended>>
       ELSE /\ regs' = [regs EXCEPT !.INTRP_MASK_ERROR = 1,
                                    !.INTRP_MASK_CMP = 1,
                                    !.INTRP_MASK_DCMP = 1,
                                    !.COMPRESS_ENABLE = FALSE]
            /\ suspended' = TRUE
            /\ pmpc' = "suspended"
            /\ pmret' = "OK"
    /\ decompr_lock' = SuspendUnlock
    /\ fifo_prod_lock' = NoOwner
    /\ pmi' = 0
    /\ UNCHANGED <<ringVars, hw_halted, prodVars, reapVars, budget, suspends,
                   decompr_busy, dcmd, decVars, pm_overlap, probe, libVars>>

\* spin_lock(&eh_dev->fifo_prod_lock) of eh_resume
ResumeLock ==
    /\ pmpc = "suspended"
    /\ ProdLockFree
    /\ fifo_prod_lock' = PmOwner
    /\ pmpc' = "resuming"
    /\ UNCHANGED <<ringVars, suspended, regs, hw_halted, prodVars, reapVars,
                   budget, suspends, otherVars>>

\* eh_compr_fifo_init as eh_resume calls it, and the rest of eh_resume
ResumeBody ==
    /\ pmpc = "resuming"
    /\ write_index' = 0
    /\ complete_index' = 0
    /\ regs' = [regs EXCEPT !.CDESC_WRIDX = 0, !.COMPLETE_IDX = 0,
                            !.COMPRESS_ENABLE = TRUE,
                            !.INTRP_MASK_ERROR = 0, !.INTRP_MASK_CMP = 0,
                            !.INTRP_MASK_DCMP = 0]
    /\ suspended' = FALSE
    /\ fifo_prod_lock' = NoOwner
    /\ pmpc' = "running"
    /\ pmret' = "OK"
    /\ pm_overlap' = FALSE
    /\ UNCHANGED <<fifo, completions, nr_request, hw_halted, prodVars,
                   reapVars, budget, suspends, slotVars, decVars, pmi, probe, libVars>>

\* eh_init(fifo_size) is called and returns
EhInit(fail) ==
    /\ probe.pc = "entry"
    /\ probe' = EhInitResult(probe.fifo_size, fail)
    /\ UNCHANGED <<ringVars, suspended, fifo_prod_lock, regs, hw_halted,
                   prodVars, reapVars, pmpc, budget, suspends, slotVars,
                   decVars, pmVars, libVars>>

(* ------------------- eh_setup_dcmd: source selection -------------------- *)

\* alignment = 1UL << __ffs((unsigned long)compr_data)
Alignment(compr_data) == Shl1(Ffs(compr_data))

\* the copy test with a buffer exactly as large as its alignment copied too
CopyNeededAtLimit(compr_data, compr_size) ==
    Alignment(compr_data) < 64 \/ compr_size >= Alignment(compr_data)

\* alignment < 64 || compr_size > alignment
CopyNeeded(compr_data, compr_size) ==
    Alignment(compr_data) < 64 \/ compr_size > Alignment(compr_data)

\* what eh_setup_dcmd copies and writes to EH_REG_DCMD_CSIZE and
\* EH_REG_DCMD_BUF0 of the command set
SetupDcmd(index, compr_data, compr_size) ==
    LET copy == CopyNeeded(compr_data, compr_size)
        src_vaddr == IF copy THEN DecomprBuffer(index) ELSE compr_data
        alignment == IF copy THEN PAGE_SIZE
                     ELSE IF Alignment(compr_data) > PAGE_SIZE THEN PAGE_SIZE
                     ELSE Alignment(compr_data)
    IN  [pc |-> "programmed", index |-> index, compr_data |-> compr_data,
         compr_size |-> compr_size,
         copied |-> IF copy THEN compr_size ELSE 0,
         src_vaddr |-> src_vaddr,
         buf_size |-> Ffs(alignment) - 5,
         csize |-> compr_size]

\* eh_setup_dcmd runs
EhSetupDcmd ==
    /\ dsetup.pc = "entry"
    /\ dsetup' = SetupDcmd(dsetup.index, dsetup.compr_data, dsetup.compr_size)
    /\ UNCHANGED <<ringVars, suspended, fifo_prod_lock, regs, hw_halted,
                   prodVars, reapVars, pmpc, budget, suspends, slotVars,
                   decVars, pmVars, probe, registryVars, reset>>

(* ------------------------------- eh_reset ------------------------------ *)

\* everything eh_reset leaves alone
resetFrame ==
    <<ringVars, suspended, fifo_prod_lock, regs, hw_halted, prodVars, reapVars,
      pmpc, budget, suspends, slotVars, decVars, pmVars, probe, dsetup,
      registryVars>>

\* the test after the loop with the failure never reported
ResetNeverTimesOut(count) == FALSE

\* count == EH_MAX_RESET_WAIT
ResetTimedOut(count) == count = EH_MAX_RESET_WAIT

\* the quirk test and the write of EH_REG_GCTRL
ResetWrite ==
    /\ reset.pc = "entry"
    /\ IF reset.quirk
       THEN reset' = [reset EXCEPT !.pc = "returned", !.ret = "OK"]
       ELSE reset' = [reset EXCEPT !.pc = "loop", !.gctrl = 1,
                                   !.writes = @ + 1]
    /\ UNCHANGED resetFrame

\* one evaluation of the loop condition, with the loop body or the return
ResetPoll ==
    /\ reset.pc = "loop"
    /\ IF reset.count < EH_MAX_RESET_WAIT
       THEN IF reset.gctrl # 0
            THEN reset' = [reset EXCEPT !.count = @ + 1, !.reads = @ + 1]
            ELSE reset' = [reset EXCEPT
                              !.reads = @ + 1,
                              !.zero_read = TRUE,
                              !.pc = "returned",
                              !.ret = IF ResetTimedOut(reset.count)
                                      THEN "FAIL" ELSE "OK"]
       ELSE reset' = [reset EXCEPT
                         !.pc = "returned",
                         !.ret = IF ResetTimedOut(reset.count)
                                 THEN "FAIL" ELSE "OK"]
    /\ UNCHANGED resetFrame

\* the block finishes its reset and clears EH_REG_GCTRL
GctrlClear ==
    /\ reset.pc = "loop"
    /\ reset.gctrl # 0
    /\ reset' = [reset EXCEPT !.gctrl = 0]
    /\ UNCHANGED resetFrame

(* ----------------------- eh_create and eh_destroy ----------------------- *)

\* the list after eh_create's loop, with list_del left out
ListDelSkipped(list) == list

\* the list after eh_create's loop: list_del of the first entry
ListDel(list) == Tail(list)

\* everything eh_create and eh_destroy leave alone
registryFrame ==
    <<ringVars, suspended, fifo_prod_lock, regs, hw_halted, prodVars, reapVars,
      pmpc, budget, suspends, slotVars, decVars, pmVars, probe, dsetup,
      reset>>

\* eh_create: the loop over eh_dev_list under eh_dev_list_lock
CreateTake(k) ==
    /\ cpc[k] = "idle"
    /\ ccalls < MaxCreates
    /\ ccalls' = ccalls + 1
    /\ IF eh_dev_list # <<>>
       THEN /\ cloc' = [cloc EXCEPT ![k] = [ret |-> Head(eh_dev_list),
                                            err |-> "NONE"]]
            /\ eh_dev_list' = ListDel(eh_dev_list)
       ELSE /\ cloc' = [cloc EXCEPT ![k] = [ret |-> NULL, err |-> "NONE"]]
            /\ eh_dev_list' = eh_dev_list
    /\ cpc' = [cpc EXCEPT ![k] = "create"]
    /\ UNCHANGED <<callbacks, registryFrame>>

\* eh_create after the unlock: the callbacks are stored, or ERR_PTR(-ENODEV)
CreateReturn(k) ==
    /\ cpc[k] = "create"
    /\ IF cloc[k].ret # NULL
       THEN /\ callbacks' = [callbacks EXCEPT ![cloc[k].ret] =
                                 [comp |-> CompFn(k), decomp |-> DecompFn(k)]]
            /\ cpc' = [cpc EXCEPT ![k] = "owner"]
            /\ cloc' = cloc
       ELSE /\ cloc' = [cloc EXCEPT ![k].err = "ENODEV"]
            /\ cpc' = [cpc EXCEPT ![k] = "idle"]
            /\ callbacks' = callbacks
    /\ UNCHANGED <<eh_dev_list, ccalls, registryFrame>>

\* eh_destroy: comp_callback = decomp_callback = NULL
DestroyClear(k) ==
    /\ cpc[k] = "owner"
    /\ callbacks' = [callbacks EXCEPT ![cloc[k].ret] = NoCallbacks]
    /\ cpc' = [cpc EXCEPT ![k] = "destroy"]
    /\ UNCHANGED <<eh_dev_list, cloc, ccalls, registryFrame>>

\* eh_destroy: list_add_tail under eh_dev_list_lock, and return
DestroyAdd(k) ==
    /\ cpc[k] = "destroy"
    /\ eh_dev_list' = Append(eh_dev_list, cloc[k].ret)
    /\ cloc' = [cloc EXCEPT ![k].ret = NULL]
    /\ cpc' = [cpc EXCEPT ![k] = "idle"]
    /\ UNCHANGED <<callbacks, ccalls, registryFrame>>

(* --------------------------- specifications ---------------------------- *)

Producer ==
    \E p \in Producers :
        \/ CompressLock(p)
        \/ CompressCheck(p)
        \/ CompressRecord(p)
        \/ CompressCount(p)
        \/ CompressPublish(p)

Reaper ==
    \/ ReaperPoll
    \/ ReaperCallback
    \/ ReaperIdle
    \/ ReaperDec
    \/ ReaperStore
    \/ ReaperError
    \/ ReaperAbortBegin
    \/ ReaperAbortStep

Device == \E s \in DeviceStatuses, e \in ErrCondValues : DeviceComplete(s, e)

PowerManagement ==
    \/ SuspendLock
    \/ SuspendLockSlot
    \/ SuspendBody
    \/ ResumeLock
    \/ ResumeBody

\* the whole driver
Next == Producer \/ Reaper \/ Device \/ PowerManagement

Spec == Init /\ [][Next]_vars

\* eh_compress_page callers, eh_comp_thread and the hardware block
NextRing == Producer \/ Reaper \/ Device

SpecRing == InitWith(MaxSubmitLong) /\ [][NextRing]_vars

\* the whole driver over more submissions, on a block that reports one
\* success status and the fatal one
CoarseStatuses == {EH_CDESC_COMPRESSED, EH_CDESC_ERROR_HALTED}

DeviceCoarse ==
    \E s \in CoarseStatuses, e \in ErrCondValues : DeviceComplete(s, e)

NextLong == Producer \/ Reaper \/ DeviceCoarse \/ PowerManagement

SpecLong == InitWith(MaxSubmitLong) /\ [][NextLong]_vars

\* the scenario of one submission more than the ring holds, with every thread
\* and the block scheduled fairly and fifo_prod_lock a fair lock
RingFairness ==
    /\ \A p \in Producers :
          /\ SF_vars(CompressLock(p))
          /\ WF_vars(CompressCheck(p))
          /\ WF_vars(CompressRecord(p))
          /\ WF_vars(CompressCount(p))
          /\ WF_vars(CompressPublish(p))
    /\ WF_vars(Reaper)
    /\ WF_vars(Device)

SpecScenario == InitWith(fifo_size + 1) /\ [][NextRing]_vars /\ RingFairness

\* the callers of eh_decompress_page, one per cpu
Decompressor ==
    \E c \in Cpus :
        \/ DecompressLock(c)
        \/ DecompressCheck(c)
        \/ DecompressPoll(c)

\* the decompression side of the block
DcmdDevice == \E i \in DcmdSlots, s \in DcmdFinalStatuses : DcmdComplete(i, s)

\* the clock
Timer == \E c \in Cpus : Tick(c)

\* eh_decompress_page callers, the block, the clock, eh_suspend and eh_resume
NextDecomp == Decompressor \/ DcmdDevice \/ Timer \/ PowerManagement

InitDecomp ==
    /\ RingInit(0)
    /\ DecompInit(MaxDecompress)
    /\ probe = EhInitResult(fifo_size, "none")
    /\ LibInit

SpecDecomp == InitDecomp /\ [][NextDecomp]_vars

\* the same with every caller and the clock scheduled fairly; nothing is
\* assumed of the block
DecompFairness ==
    \A c \in Cpus :
        /\ WF_vars(DecompressCheck(c))
        /\ WF_vars(DecompressPoll(c))
        /\ WF_vars(Tick(c))

SpecDecompLive == InitDecomp /\ [][NextDecomp]_vars /\ DecompFairness

\* eh_init called with every value of its fifo_size argument
FifoSizeArgs == 0 .. UShortMax

InitProbe ==
    /\ RingInit(0)
    /\ DecompInit(0)
    /\ probe \in {Unprobed(n) : n \in FifoSizeArgs}
    /\ LibInit

NextProbe == \E fail \in InitFailures : EhInit(fail)

SpecProbe == InitProbe /\ [][NextProbe]_vars

\* compr_data arguments of every alignment from 1 byte to four pages
SetupAddrs ==
    {(4 * PAGE_SIZE) + off :
        off \in {0, 1, 2, 8, 32, 64, 128, 192, 256, 320, 512, 1024, 2048,
                 PAGE_SIZE, 2 * PAGE_SIZE}}

\* compr_size arguments around every limit
SetupSizes == {1, 63, 64, 65, 100, 128, 129, 2048, PAGE_SIZE}

InitSetup ==
    /\ RingInit(0)
    /\ DecompInit(0)
    /\ probe = EhInitResult(fifo_size, "none")
    /\ dsetup \in {SetupEntry(i, a, n) :
                       i \in DcmdSlots, a \in SetupAddrs, n \in SetupSizes}
    /\ RegistryInit(<<>>)
    /\ reset = NoReset

\* eh_setup_dcmd called with every argument
SpecSetup == InitSetup /\ [][EhSetupDcmd]_vars

InitRegistry ==
    /\ RingInit(0)
    /\ DecompInit(0)
    /\ probe = EhInitResult(fifo_size, "none")
    /\ dsetup = NoSetup
    /\ RegistryInit([d \in Devices |-> d])
    /\ reset = NoReset

NextRegistry ==
    \E k \in Clients :
        \/ CreateTake(k)
        \/ CreateReturn(k)
        \/ DestroyClear(k)
        \/ DestroyAdd(k)

\* eh_create and eh_destroy called by several clients
SpecRegistry == InitRegistry /\ [][NextRegistry]_vars

InitReset ==
    /\ RingInit(0)
    /\ DecompInit(0)
    /\ probe = EhInitResult(fifo_size, "none")
    /\ dsetup = NoSetup
    /\ RegistryInit(<<>>)
    /\ reset \in {ResetEntry(q) : q \in BOOLEAN}

NextReset == ResetWrite \/ ResetPoll \/ GctrlClear

\* eh_reset on a block that clears EH_REG_GCTRL at any moment, or never; the
\* caller is scheduled
SpecReset == InitReset /\ [][NextReset]_vars /\ WF_vars(ResetWrite \/ ResetPoll)

\* the ring with eh_deinit stopping eh_comp_thread at any moment
NextStop == NextRing \/ KthreadStop

SpecStop == InitWith(fifo_size + 1) /\ [][NextStop]_vars /\ RingFairness

\* the ring on a block that can report a completion without writing the
\* descriptor
NextFaulty == Producer \/ Reaper \/ DeviceCoarse \/ DeviceMisreport

SpecFaulty == InitWith(MaxSubmit) /\ [][NextFaulty]_vars

\* every operation that takes a lock: eh_compress_page, eh_decompress_page,
\* eh_suspend and eh_resume, with eh_comp_thread and the block
NextLocks ==
    \/ Producer
    \/ Reaper
    \/ DeviceCoarse
    \/ Decompressor
    \/ DcmdDevice
    \/ Timer
    \/ PowerManagement

InitLocks ==
    /\ RingInit(LockSubmits)
    /\ DecompInit(LockDecompresses)
    /\ probe = EhInitResult(fifo_size, "none")
    /\ LibInit

SpecLocks == InitLocks /\ [][NextLocks]_vars

(* ------------------------------ properties ----------------------------- *)

AdmittedTokens == {admitted[k] : k \in 1 .. Len(admitted)}

DeliveredPrivs == [k \in 1 .. Len(delivered) |-> delivered[k].priv]

IsPrefix(a, b) == Len(a) <= Len(b) /\ \A k \in 1 .. Len(a) : a[k] = b[k]

\* (write_index - complete_index) mod 2N
Pending == BitAnd(write_index - complete_index, fifo_color_mask)

\* producer p takes the step of eh_compress_page that assigns it a slot
Admits(p) == ppc[p] = "locked" /\ ppc'[p] = "record"

WriteSlot == BitAnd(write_index, fifo_index_mask)

InCritical(p) == ppc[p] \in {"locked", "record", "count", "publish"}

\* C1: the tokens passed to the completion callback are, in order, a prefix of
\* the tokens in the order their submissions were assigned a slot.
C1_FifoLaw == IsPrefix(DeliveredPrivs, admitted)

\* C1 witness: submissions of both producers have all been delivered, in
\* the order they were admitted, and the ring is empty again
C1_Witness ==
    /\ Len(delivered) = MaxSubmitLong
    /\ DeliveredPrivs = admitted
    /\ Pending = 0

\* C2: pending = (write_index - complete_index) mod 2N lies in [0, N].
C2_PendingInRange == Pending \in 0 .. fifo_size

\* C3: eh_compress_page only ever writes a slot whose descriptor is IDLE and
\* whose completion record holds no token that is still to be delivered.
C3_NoOverwrite ==
    [][\A p \in Producers :
          Admits(p) => /\ fifo[WriteSlot].status = EH_CDESC_IDLE
                       /\ completions[WriteSlot] \in {NULL} \cup DeliveredTokens]_vars

\* C4: no token is delivered twice, and every token delivered is that of an
\* admitted submission.
C4_AtMostOnce ==
    /\ \A j, k \in 1 .. Len(delivered) :
          delivered[j].priv = delivered[k].priv => j = k
    /\ \A k \in 1 .. Len(delivered) : delivered[k].priv \in AdmittedTokens

\* no eh_compress_page call is in progress
ProducersIdle == \A p \in Producers : ppc[p] \in {"idle", "failed"}

\* the block has completed every published descriptor and eh_comp_thread has
\* reaped every completed one
Drained ==
    /\ ~hw_halted
    /\ regs.COMPLETE_IDX = regs.CDESC_WRIDX
    /\ rpc = "wait"
    /\ regs.COMPLETE_IDX = complete_index

\* C5: every admitted submission receives its callback: once the block has
\* completed every pending descriptor and the reaper has caught up with it,
\* with no call in progress, no admitted token is left undelivered.
C5_AllDelivered ==
    (ProducersIdle /\ Drained /\ pmpc = "running")
        => AdmittedTokens \subseteq DeliveredTokens

\* C6: producers are serialized by fifo_prod_lock: at most one is between
\* taking the lock and publishing, write_index moves by exactly one per
\* admitted submission and not at all between the slot assignment and the
\* publication, and the lock is not held across the congestion wait.
C6_Serialized ==
    /\ [](\A p, q \in Producers :
            /\ (InCritical(p) /\ InCritical(q)) => p = q
            /\ InCritical(p) => fifo_prod_lock = p
            /\ ppc[p] = "wait" => fifo_prod_lock # p)
    /\ [][\A p \in Producers :
            /\ (ppc[p] = "publish" /\ ppc'[p] # "publish")
                  => write_index' = BitAnd(write_index + 1, fifo_color_mask)
            /\ (ppc[p] \in {"record", "count"})
                  => write_index' = write_index]_vars

\* C6 witness: one producer waits for capacity while another holds the lock
\* and is filling a slot
C6_Witness ==
    \E p, q \in Producers : ppc[p] = "wait" /\ ppc[q] = "count"

\* C7: a call that finds the device suspended returns -EBUSY at once and
\* leaves both indices, every descriptor and completion record, the in-flight
\* counter and the registers as they were.
C7_SuspendedFails ==
    [][\A p \in Producers :
          (ppc[p] = "locked" /\ suspended /\ ppc'[p] # "locked")
              => /\ ppc'[p] = "failed"
                 /\ UNCHANGED <<write_index, complete_index, fifo, completions,
                                nr_request, regs, admitted>>]_vars

\* C7 witness: a call has failed while the device is suspended
C7_Witness ==
    suspended /\ \E p \in Producers : ppc[p] = "failed"

\* C8: a call is admitted only when fewer than N submissions are pending, so
\* with N in flight it neither returns nor is admitted before a reap; when it
\* is admitted right after the ring was full it gets the slot just freed; and
\* once capacity is free a waiting call is eventually admitted.
C8_BlocksThenAdmitted ==
    /\ [][\A p \in Producers :
            /\ Admits(p) =>
                  /\ Pending < fifo_size
                  /\ Pending = fifo_size - 1 =>
                        WriteSlot = BitAnd(complete_index - 1, fifo_index_mask)
            /\ (ppc[p] \in {"locked", "wait"} /\ Pending = fifo_size)
                  => ppc'[p] \in {"locked", "wait"}]_vars
    /\ \A p \in Producers :
          (ppc[p] = "wait" /\ Pending < fifo_size)
              ~> (ppc[p] = "idle" /\ ptok[p] \in AdmittedTokens)

\* C8 witness: the submission after the first N has been given write index N
\* (masked slot 0) after a completion was reaped
C8_Witness ==
    /\ write_index = fifo_size
    /\ Len(delivered) >= 1
    /\ \E p \in Producers :
          ppc[p] = "record" /\ ptok[p] = fifo_size + 1 /\ WriteSlot = 0

\* C9: a producer is never left in the congestion wait for good: the thread
\* that frees capacity has not exited while a producer waits on a full ring
\* with requests in flight (which make every eh_suspend return busy).
C9_NoStuckProducer ==
    ~ /\ rpc = "exited"
      /\ nr_request > 0
      /\ ~suspended
      /\ \E p \in Producers :
            ppc[p] = "wait" /\ FifoFull(write_index, complete_index)

\* C10: once halt recovery has run, every submission that was outstanding
\* when it started has received a callback with ERROR_HALTED, NULL and 0.
C10_HaltReportsAll ==
    rpc = "exited" =>
        \A t \in haltPending :
            \E k \in 1 .. Len(delivered) :
                delivered[k] = [status |-> EH_CDESC_ERROR_HALTED,
                                data |-> NULL, size |-> 0, priv |-> t]

\* C11: once eh_comp_thread has run the halt recovery and stopped, no call of
\* eh_compress_page is admitted into the ring or sent to the congestion
\* wait: a call that holds the lock then fails.
C11_HaltedRejects ==
    [][\A p \in Producers :
          (rpc = "exited" /\ ppc[p] = "locked" /\ ppc'[p] # "locked")
              => ppc'[p] = "failed"]_vars

C13_SuspendBusyOnDecompress == ~(pm_overlap /\ pmret = "OK")

\* cpu c takes the step on which its eh_decompress_page call returns
DecompressReturns(c) == dpc[c] # "idle" /\ dpc'[c] = "idle"

\* C14: eh_decompress_page returns 0 exactly when its poll read DECOMPRESSED
\* before the time limit, -ETIME exactly when the time limit passed first,
\* -EIO exactly when the poll read another status than PENDING or
\* DECOMPRESSED, and -EBUSY, with no command set programmed and no register
\* written, when it found the device suspended.
C14_DecompressOutcome ==
    [][\A c \in Cpus :
          DecompressReturns(c) =>
              LET status == dcmd[DcmdIndex(c)].status
                  polled == dpc[c] = "poll" /\ ~dtimer[c]
              IN  /\ dret'[c] = "OK"
                        <=> (polled /\ status = EH_DCMD_DECOMPRESSED)
                  /\ dret'[c] = "ETIME" <=> (dpc[c] = "poll" /\ dtimer[c])
                  /\ dret'[c] = "EIO"
                        <=> (polled /\ status \notin {EH_DCMD_PENDING,
                                                      EH_DCMD_DECOMPRESSED})
                  /\ dret'[c] = "EBUSY" <=> dpc[c] = "locked"
                  /\ (dpc[c] = "locked" /\ suspended)
                        => (dret'[c] = "EBUSY" /\ dcmd' = dcmd /\ regs' = regs)]_vars

\* C14 witness: one call has succeeded, one has timed out, and one has been
\* refused on the suspended device
C14_Witness ==
    /\ suspended
    /\ \E c, d, e \in Cpus :
          dret[c] = "OK" /\ dret[d] = "ETIME" /\ dret[e] = "EBUSY"

\* C15: a cpu that is not inside eh_decompress_page does not hold its slot's
\* lock, a slot's lock is held only by a call in progress on that slot or by
\* eh_suspend, and no slot is marked busy.
C15_SlotReturnsFree ==
    /\ \A c \in Cpus :
          dpc[c] = "idle" => decompr_lock[DcmdIndex(c)] # CpuOwner(c)
    /\ \A i \in DcmdSlots :
          /\ ~decompr_busy[i]
          /\ decompr_lock[i] \in
                {NoOwner, DcmdPmOwner} \cup
                {CpuOwner(c) : c \in {x \in Cpus : DcmdIndex(x) = i
                                                   /\ dpc[x] # "idle"}}

\* C15 witness: after a call on a slot timed out, a call of another cpu on the
\* same slot has taken the lock and programmed the slot
C15_Witness ==
    \E c, d \in Cpus :
        /\ c # d
        /\ DcmdIndex(c) = DcmdIndex(d)
        /\ dret[c] = "ETIME"
        /\ dpc[c] = "idle"
        /\ dpc[d] = "poll"

\* C16: every eh_decompress_page call that has taken its slot's lock returns,
\* whatever the block does.
C16_DecompressTerminates ==
    \A c \in Cpus : (dpc[c] \in {"locked", "poll"}) ~> (dpc[c] = "idle")

\* C16 witness: a call has returned -ETIME from a command set the block
\* never finished
C16_Witness ==
    \E c \in Cpus :
        /\ dret[c] = "ETIME"
        /\ dpc[c] = "idle"
        /\ dcmd[DcmdIndex(c)].status = EH_DCMD_PENDING
        /\ dcmd[DcmdIndex(c)].csize = dsize[c]

\* C17: no eh_decompress_page call finds decompr_busy set for its slot.
C17_BusyUnreachable ==
    \A c \in Cpus : dpc[c] = "locked" => ~decompr_busy[DcmdIndex(c)]

\* C17 witness: a cpu is at the busy test of a slot it shares with a cpu
\* whose call timed out and left the command pending
C17_Witness ==
    \E c, d \in Cpus :
        /\ c # d
        /\ DcmdIndex(c) = DcmdIndex(d)
        /\ dpc[c] = "locked"
        /\ ~suspended
        /\ dret[d] = "ETIME"
        /\ dcmd[DcmdIndex(c)].status = EH_DCMD_PENDING

C19_NoResidue ==
    \A k \in 1 .. Len(delivered) :
        LET d == delivered[k] IN
        /\ d.priv # NULL
        /\ \A j \in 1 .. (k - 1) : delivered[j].priv # d.priv
        /\ d.status \in {EH_CDESC_COPIED, EH_CDESC_COMPRESSED}
              => d.size = CompressedLen(d.priv)

\* C20: 0 <= nr_request <= N.
C20_InFlightBounded == nr_request \in 0 .. fifo_size


\* C21: once eh_deinit has requested the stop of eh_comp_thread, the thread
\* eventually leaves its loop, also when it sleeps with no request in flight.
C21_StopExits == stop_requested ~> rpc \in {"stopped", "exited"}

\* C22: a completion reported as ZERO or ABORT reaches the callback with a
\* NULL buffer and a size of 0, whatever compr_len the descriptor holds.
C22_NoDataNoSize ==
    \A k \in 1..Len(delivered) :
        delivered[k].status \in {EH_CDESC_ZERO, EH_CDESC_ABORT} =>
            /\ delivered[k].data = NULL
            /\ delivered[k].size = 0


\* C23: a descriptor delivered with ERROR_CONTINUE does not stop the ring: the
\* reaper resets its slot to IDLE, advances complete_index by one and goes on
\* with the next completed slot of the pass, or back to its wait when there is
\* none; it never takes the error path.
C23_ErrorContinueGoesOn ==
    [][(/\ Len(delivered) > 0
        /\ delivered[Len(delivered)].status = EH_CDESC_ERROR_CONTINUE)
       => /\ (rpc = "idle" /\ rpc' # "idle") =>
                 /\ fifo'[BitAnd(rloc.i, fifo_index_mask)].status = EH_CDESC_IDLE
                 /\ rpc' = "dec"
          /\ (rpc = "dec" /\ rpc' # "dec") => rpc' = "store"
          /\ (rpc = "store" /\ rpc' # "store") =>
                 /\ complete_index' = NextIndex(complete_index)
                 /\ rpc' = IF NextIndex(rloc.i) # rloc.end
                           THEN "callback" ELSE "wait"]_vars

\* an ERROR_CONTINUE outcome followed, in the same pass, by the next slot and,
\* later, by a page admitted into the reused slot and reaped
C23_Witness ==
    \E k \in 1..Len(delivered) :
        /\ delivered[k].status = EH_CDESC_ERROR_CONTINUE
        /\ k + 2 <= Len(delivered)
        /\ delivered[k + 1].status = EH_CDESC_COMPRESSED
        /\ delivered[k + 2].status = EH_CDESC_COMPRESSED
        /\ delivered[k + 2].priv = admitted[k + 2]
        /\ rpc = "wait"
        /\ complete_index = write_index


\* C24: once a descriptor marked ERROR_HALTED has been delivered the reaper
\* stops: from the read of the error-condition register it goes to the abort
\* of the remaining descriptors and never back to its wait for completions,
\* whatever the register holds.
C24_HaltStopsReaper ==
    [][rpc = "error" => rpc' \in {"error", "abort"}]_vars

\* C25: a descriptor found IDLE or PENDING at a completed index is escalated
\* like ERROR_HALTED: the reaper's pass ends with a non-zero result on it.
C25_InconsistencyEscalates ==
    [][(/\ rpc = "callback"
        /\ rpc' # "callback"
        /\ fifo[BitAnd(rloc.i, fifo_index_mask)].status
               \in {EH_CDESC_IDLE, EH_CDESC_PENDING})
       => rloc'.ret # 0]_vars


\* slot s lies in the in-flight window [complete_index, write_index)
InWindow(s) ==
    \E k \in 0..(Pending - 1) :
        BitAnd(complete_index + k, fifo_index_mask) = s

\* slot s is the one a producer holding fifo_prod_lock has set up and not yet
\* published
BeingFilled(s) ==
    /\ s = WriteSlot
    /\ \E p \in Producers : ppc[p] \in {"record", "count", "publish"}

\* C26: every slot outside the in-flight window [complete_index, write_index)
\* has descriptor status IDLE, so that complete_index is never seen advanced
\* past a descriptor that is not IDLE. The slot at write_index is left out
\* while the producer holding the lock has set it up and not yet published it.
C26_OutsideWindowIdle ==
    \A s \in Slots :
        (~InWindow(s) /\ ~BeingFilled(s)) => fifo[s].status = EH_CDESC_IDLE


\* C27: the reaper wakes the producers blocked in the congestion wait only
\* after it has advanced complete_index: at the wake-up a blocked producer that
\* recomputes the pending count finds the ring no longer full.
C27_WakeAfterAdvance ==
    [][(/\ rpc = "dec"
        /\ rpc' = "store"
        /\ \E p \in Producers : ppc[p] = "wait")
       => ~FifoFull(write_index', complete_index')]_vars

\* C28: after initialization only the reaper changes complete_index, in the
\* step that follows a reaped slot, and only the reaper sets a descriptor to
\* IDLE.
C28_ReaperSoleMutator ==
    [][/\ complete_index' # complete_index => (rpc = "store" /\ rpc' # "store")
       /\ \A s \in Slots :
              (fifo[s].status # EH_CDESC_IDLE /\ fifo'[s].status = EH_CDESC_IDLE)
                  => (rpc = "idle" /\ rpc' = "dec")]_vars


\* slot s is covered by the write index the block has been given and lies at
\* or after the block's completion index
DeviceCovers(s) ==
    \E k \in 0..(BitAnd(regs.CDESC_WRIDX - regs.COMPLETE_IDX, fifo_color_mask) - 1) :
        BitAnd(regs.COMPLETE_IDX + k, fifo_index_mask) = s

\* C29: when eh_compress_page publishes the new write index, the descriptor of
\* the newly covered slot is PENDING with the page's source address and the
\* slot's completion record holds the caller's token; the write index given to
\* the block never covers a descriptor that is IDLE.
C29_PublishedIsReady ==
    /\ \A p \in Producers :
           ppc[p] = "publish" =>
               /\ fifo[masked_w_index].status = EH_CDESC_PENDING
               /\ fifo[masked_w_index].src_addr = ptok[p]
               /\ completions[masked_w_index] = ptok[p]
    /\ \A s \in Slots : DeviceCovers(s) => fifo[s].status # EH_CDESC_IDLE


\* a thread holds some lock
LockHeld ==
    \/ fifo_prod_lock # NoOwner
    \/ \E i \in DcmdSlots : decompr_lock[i] # NoOwner

\* a step of a thread that holds a lock and waits for none, or of eh_suspend
\* taking the next slot lock
HolderStep ==
    \/ \E p \in Producers :
           \/ CompressCheck(p)
           \/ CompressRecord(p)
           \/ CompressCount(p)
           \/ CompressPublish(p)
    \/ \E c \in Cpus :
           \/ DecompressCheck(c)
           \/ DecompressPoll(c)
           \/ Tick(c)
    \/ SuspendLockSlot
    \/ SuspendBody
    \/ ResumeBody

\* C30: the locking protocol is deadlock-free. Every lock is held by a thread
\* that is inside the operation that took it (eh_suspend holding the ring lock
\* and the slot locks below the one it takes next); whenever a lock is held
\* some holder can take a step; and a call of eh_decompress_page can take its
\* slot's lock whenever that lock is free, whoever holds the ring lock or the
\* locks of the other slots, the holder of a slot lock being a decompression on
\* that same slot or eh_suspend.
C30_DeadlockFree ==
    /\ \A p \in Producers : fifo_prod_lock = p <=> InCritical(p)
    /\ fifo_prod_lock = PmOwner <=>
           pmpc \in {"locking", "suspending", "resuming"}
    /\ \A i \in DcmdSlots :
           /\ decompr_lock[i] = DcmdPmOwner <=>
                  \/ pmpc = "suspending"
                  \/ pmpc = "locking" /\ i < pmi
           /\ \A c \in Cpus :
                  decompr_lock[i] = CpuOwner(c) <=>
                      (DcmdIndex(c) = i /\ dpc[c] \in {"locked", "poll"})
    /\ LockHeld => ENABLED HolderStep
    /\ \A c \in Cpus :
           (dpc[c] = "idle" /\ dcalls < dbudget
                /\ decompr_lock[DcmdIndex(c)] = NoOwner)
               => ENABLED DecompressLock(c)

\* C30 witness: eh_suspend holds the ring lock and the lock of slot 0 and waits
\* for the lock of a slot held by a polling decompression, while a submit
\* waits for the ring lock and a decompression for the lock of slot 0
C30_Witness ==
    /\ pmpc = "locking"
    /\ pmi > 0
    /\ \E d \in Cpus : decompr_lock[pmi] = CpuOwner(d) /\ dpc[d] = "poll"
    /\ \E c \in Cpus : /\ dpc[c] = "idle"
                       /\ dcalls < dbudget
                       /\ DcmdIndex(c) < pmi
    /\ \E p \in Producers : ppc[p] = "idle" /\ calls < budget


\* eh_resume has returned
Resumed == pmpc = "running" /\ pmret = "OK"

\* C31: a successful eh_suspend followed by eh_resume leaves the ring READY:
\* suspended is false, the FIFO is enabled and the interrupts unmasked, the
\* software and hardware indices are all 0 and no request is in flight; from
\* then on the tokens reach the callback in the order of their admission.
C31_ResumeReady ==
    [][/\ (pmpc = "resuming" /\ pmpc' = "running") =>
              /\ ~suspended'
              /\ regs'.COMPRESS_ENABLE
              /\ regs'.INTRP_MASK_ERROR = 0
              /\ regs'.INTRP_MASK_CMP = 0
              /\ regs'.INTRP_MASK_DCMP = 0
              /\ write_index' = 0
              /\ complete_index' = 0
              /\ regs'.CDESC_WRIDX = 0
              /\ regs'.COMPLETE_IDX = 0
              /\ nr_request' = 0
       /\ Resumed' => IsPrefix(DeliveredPrivs', admitted')]_vars


NaturalAlignment(a) ==
    CHOOSE n \in {Shl1(k) : k \in 0..16} : a % n = 0 /\ a % (2 * n) # 0

\* C33: eh_setup_dcmd programs the caller's buffer in place exactly when the
\* natural alignment of its address is at least 64 bytes and at least the
\* compressed size; otherwise it copies the data into the command set's own
\* buffer and programs that buffer with page alignment. A 100-byte buffer at an
\* address aligned to 128 bytes is used in place, one at an address aligned to
\* 64 bytes only is copied.
C33_SourceSelection ==
    dsetup.pc = "programmed" =>
        LET a == dsetup.compr_data
            n == dsetup.compr_size
            inplace == dsetup.src_vaddr = a /\ dsetup.copied = 0
        IN  /\ inplace <=> (NaturalAlignment(a) >= 64 /\ NaturalAlignment(a) >= n)
            /\ ~inplace =>
                   /\ dsetup.src_vaddr = DecomprBuffer(dsetup.index)
                   /\ dsetup.copied = n
                   /\ Shl1(dsetup.buf_size + 5) = PAGE_SIZE
            /\ dsetup.csize = n
            /\ (n = 100 /\ NaturalAlignment(a) = 128) => inplace
            /\ (n = 100 /\ NaturalAlignment(a) = 64) => ~inplace

\* C33 witness: the 100-byte buffer at an address aligned to 64 bytes only has
\* been copied into the buffer of command set 1
C33_Witness ==
    /\ dsetup.pc = "programmed"
    /\ dsetup.compr_size = 100
    /\ NaturalAlignment(dsetup.compr_data) = 64
    /\ dsetup.index = 1
    /\ dsetup.src_vaddr = DecomprBuffer(1)
    /\ dsetup.copied = 100


\* the device client k holds from the list_del of its eh_create to the
\* list_add_tail of its eh_destroy, or NULL
Holds(k) == IF cpc[k] \in {"create", "owner", "destroy"} THEN cloc[k].ret ELSE NULL

\* C34: device ownership is exclusive. A device taken by eh_create is off the
\* list and held by no other client until its owner's eh_destroy puts it back;
\* eh_create fails with -ENODEV exactly when it found the list empty; and every
\* device on the list has both callbacks NULL.
C34_ExclusiveOwnership ==
    [][/\ \A k, j \in Clients :
              (k # j /\ Holds(k)' # NULL) => Holds(k)' # Holds(j)'
       /\ \A k \in Clients, n \in 1 .. Len(eh_dev_list') :
              Holds(k)' # eh_dev_list'[n]
       /\ \A n, m \in 1 .. Len(eh_dev_list') :
              n # m => eh_dev_list'[n] # eh_dev_list'[m]
       /\ \A n \in 1 .. Len(eh_dev_list') :
              callbacks'[eh_dev_list'[n]] = NoCallbacks
       /\ \A k \in Clients :
              /\ (cpc[k] = "idle" /\ cpc'[k] = "create") =>
                     (cloc'[k].ret = NULL <=> eh_dev_list = <<>>)
              /\ (cpc[k] = "create" /\ cpc'[k] = "idle") =>
                     (cloc[k].ret = NULL /\ cloc'[k].err = "ENODEV")
              /\ (cpc[k] = "create" /\ cpc'[k] = "owner") =>
                     /\ cloc[k].ret # NULL
                     /\ callbacks'[cloc[k].ret] =
                            [comp |-> CompFn(k), decomp |-> DecompFn(k)]]_vars

\* C34 witness: device 1, taken first, is back on the list with its callbacks
\* cleared while another client owns device 2, and a third client's eh_create
\* found the list empty
C34_Witness ==
    \E k, l \in Clients :
        /\ k # l
        /\ cpc[k] = "owner"
        /\ cloc[k].ret = 2
        /\ callbacks[2] = [comp |-> CompFn(k), decomp |-> DecompFn(k)]
        /\ eh_dev_list = <<1>>
        /\ callbacks[1] = NoCallbacks
        /\ cpc[l] = "idle"
        /\ cloc[l].err = "ENODEV"


\* no producer is inside the critical section of eh_compress_page and
\* eh_comp_thread is not between the callback for a slot and the store of
\* complete_index past it
Quiescent ==
    /\ \A p \in Producers : ~InCritical(p)
    /\ rpc \notin {"idle", "dec", "store"}

\* C35: at quiescent points nr_request equals (write_index - complete_index)
\* mod 2N; the ring holds no request exactly when write_index = complete_index.
C35_CounterMatchesIndices ==
    Quiescent =>
        /\ nr_request = Pending
        /\ nr_request = 0 <=> write_index = complete_index


\* C36: whenever fifo_prod_lock is free the write index last written to
\* EH_REG_CDESC_WRIDX (0 after a FIFO reset) equals write_index; write_index
\* and complete_index always lie in 0 .. 2N-1.
C36_WriteIndexPublished ==
    /\ fifo_prod_lock = NoOwner => regs.CDESC_WRIDX = write_index
    /\ write_index \in 0 .. ((2 * fifo_size) - 1)
    /\ complete_index \in 0 .. ((2 * fifo_size) - 1)

\* C36 witness: with no suspend, the fourth submission has taken write_index
\* from 2N-1 round to 0, and the lock is free
C36_Witness ==
    /\ suspends = 0
    /\ Len(admitted) = 2 * fifo_size
    /\ write_index = 0
    /\ complete_index > 0
    /\ fifo_prod_lock = NoOwner


\* eh_comp_thread takes a step of eh_abort_incomplete_descriptors
AbortStep ==
    \/ rpc = "abort" /\ rpc' = "abortloop"
    \/ rpc = "abortloop" /\ (delivered' # delivered \/ rpc' = "exited")

InDecompress(c) == dpc[c] \in {"locked", "poll"}

\* C38: for every decompression slot at most one eh_decompress_page call at a
\* time is between taking the slot and the end of its poll, also when several
\* cpus map to the slot; the command set is programmed only by the call that
\* holds the slot's lock, never while another call polls on it.
C38_SlotMutex ==
    [][/\ \A c, d \in Cpus :
              (c # d /\ DcmdIndex(c) = DcmdIndex(d)) =>
                  ~(InDecompress(c)' /\ InDecompress(d)')
       /\ \A c \in Cpus :
              InDecompress(c)' => decompr_lock'[DcmdIndex(c)] = CpuOwner(c)
       /\ \A i \in DcmdSlots :
              (dcmd'[i].csize # dcmd[i].csize
                   \/ (dcmd[i].status # EH_DCMD_PENDING
                           /\ dcmd'[i].status = EH_DCMD_PENDING)) =>
                  \E c \in Cpus :
                      /\ DcmdIndex(c) = i
                      /\ dpc[c] = "locked"
                      /\ dpc'[c] = "poll"
                      /\ \A d \in Cpus \ {c} :
                             DcmdIndex(d) = i => ~InDecompress(d)]_vars

\* C38 witness: a cpu polls on a slot it shares with a cpu that was served
\* before and has a further call to make
C38_Witness ==
    \E c, d \in Cpus :
        /\ c # d
        /\ DcmdIndex(c) = DcmdIndex(d)
        /\ dpc[d] = "poll"
        /\ dcmd[DcmdIndex(d)].csize = dsize[d]
        /\ dpc[c] = "idle"
        /\ dret[c] = "OK"
        /\ dcalls < dbudget


\* C39: eh_reset always returns. With the quirk set it writes no register and
\* returns 0; otherwise it reads EH_REG_GCTRL at most EH_MAX_RESET_WAIT times
\* and returns failure exactly when every one of EH_MAX_RESET_WAIT reads was
\* nonzero, success when a read within the limit was zero.
C39_ResetTerminates ==
    /\ <>(reset.pc = "returned")
    /\ [](reset.pc # "none" => reset.reads <= EH_MAX_RESET_WAIT)
    /\ [](reset.pc = "returned" =>
             IF reset.quirk
             THEN reset.writes = 0 /\ reset.reads = 0 /\ reset.ret = "OK"
             ELSE /\ reset.writes = 1
                  /\ reset.ret = "FAIL" <=>
                         (reset.reads = EH_MAX_RESET_WAIT /\ ~reset.zero_read)
                  /\ reset.ret = "OK" <=> reset.zero_read
                  /\ reset.ret \in {"OK", "FAIL"})

\* C39 witness: the last read within the limit found the register clear
C39_Witness ==
    /\ reset.pc = "returned"
    /\ ~reset.quirk
    /\ reset.reads = EH_MAX_RESET_WAIT
    /\ reset.zero_read
    /\ reset.ret = "OK"

====
